---- MODULE Spec2Model ----
(***************************************************************************)
(* Detection-and-trigger pipeline of obs-motion.                           *)
(*                                                                         *)
(* Two sampler threads (AudioDetector._detection_loop and                  *)
(* MotionDetector._detection_loop), each with its own last_detection_time, *)
(* dispatch accepted detections to a callback that runs                    *)
(* OBSController.start_recording on the sampler's thread.  Every           *)
(* successful start spawns an auto-stop thread (_auto_stop_recording) that *)
(* sleeps RECORDING_DURATION and then runs stop_recording; stop_recording  *)
(* is also callable from the main thread.  OBSController takes no lock, so *)
(* every read of is_recording, every backend call and every write of       *)
(* is_recording is a step of its own.                                      *)
(***************************************************************************)
EXTENDS Integers, Sequences, FiniteSets, TLC

\* config.py: seconds, scaled down (defaults 30 and 3600).
COOLDOWN_PERIOD == 2
RECORDING_DURATION == 2

\* audio_detector.py:105-109: samples are np.int16 (two's complement on 16
\* bits), readings are divided by 32768.0.
Int16Span == 65536
FullScale == 32768

\* Thresholds, in units of 1/FullScale: peak_threshold 0.5
\* (audio_detector.py:26), rms_threshold 0.01 = AUDIO_THRESHOLD (config.py:21,
\* rounded up to 328/32768) and the GUI's 0.003 (gui_main.py:973, rounded down
\* to 98/32768).
PeakThresholdDefault == 16384
RmsThresholdDefault == 328
RmsThresholdGui == 98

\* Bounds of the model.
Epoch == 5          \* reading of time.time() when monitoring starts
MaxTicks == 2       \* clock ticks explored after Epoch
MaxDet == 3         \* threshold-crossing readings sampled in a run
MaxBuf == 2         \* samples of a buffer (self.chunk is 1024)

Samplers == {"audio", "motion"}
\* An auto-stop thread is created per successful start, so at most one per
\* detection.
TimerIds == 1..MaxDet

VARIABLES
    now,                  \* time.time()
    last_detection_time,  \* [Samplers -> Int], one field per detector object
    spc,                  \* [Samplers -> position of the sampler thread]
    is_recording,         \* OBSController.is_recording
    obs,                  \* the backend's own recording state (GetRecordingStatus)
    nTimers,              \* auto-stop threads created so far
    tpc,                  \* [TimerIds -> position of the auto-stop thread]
    timerDue,             \* [TimerIds -> earliest time the sleep returns]
    mpc,                  \* position of the main thread inside stop_recording
    \* history (not read by the program)
    detLog,               \* [Samplers -> Seq of threshold-crossing readings]
    callbacks,            \* [Samplers -> callback invocations]
    cur,                  \* index of the latest recording started (0: none)
    startedAt,            \* [TimerIds -> time the recording was started]
    stopBy,               \* [recording -> threads that issued StopRecording for it]
    nStop,                \* [recording -> StopRecording calls for it: 0, 1, 2 (or more)]
    \* the audio loop looked at alone
    detector              \* the AudioDetector and the locals of its loop:
                          \*   peak_threshold   self.peak_threshold * FullScale
                          \*   rms_threshold    self.rms_threshold * FullScale
                          \*   audio_data       the buffer read last (Seq of int16)
                          \*   current_peak     peak_level * FullScale
                          \*   current_rms      normalized_rms = sqrt(sq / n) / FullScale
                          \*   peak_triggered   audio_detector.py:129
                          \*   rms_triggered    audio_detector.py:132
                          \*   detection_type   "PEAK", "RMS", or "none" when no
                          \*                    detection was logged
                          \*   levels_lock      holder of self.levels_lock:
                          \*                    "free", "loop" or "gui"
                          \*   lpc              position of the loop in one
                          \*                    iteration taken step by step
                          \*   chunk            the loop's local audio_data
                          \*   peak_from, rms_from  the buffer current_peak
                          \*                    (current_rms) was computed from
                          \*   gpc              position of the GUI thread in
                          \*                    get_current_levels
                          \*   got              the pair it returned last, and
                          \*                    the buffers the two came from
    , life                \* the detector objects' life cycle and the thread
                          \* that owns them (GUI or main thread):
                          \*   is_running   [Samplers -> self.is_running]
                          \*   thread       [Samplers -> self.thread: "none",
                          \*                 "run" (alive, between two
                          \*                 iterations), "read" (alive, inside
                          \*                 an iteration) or "exited"]
                          \*   handle       [Samplers -> self.stream / self.cap:
                          \*                 "none", "open" or "closed"]
                          \*   result       [Samplers -> what start_detection
                          \*                 returned last ("-": not called)]
                          \*   owner        where the owning thread is inside
                          \*                 stop_detection
                          \*   apc, connected  AutoRecordingApp.stop and the
                          \*                 backend connection
                          \* and history: live (threads running), releases
                          \* (release calls on the handle), last (outcome of
                          \* the latest call), read_ok, restartAt, ops

vars == <<now, last_detection_time, spc, is_recording, obs, nTimers, tpc,
          timerDue, mpc, detLog, callbacks, cur, startedAt, stopBy,
          nStop, detector, life>>

progVars == <<last_detection_time, spc, is_recording, obs, nTimers, tpc,
              timerDue, mpc>>

----------------------------------------------------------------------------
(* Conditions of the code *)

\* The gate without its check, and with a window one second short.
GateOpenAlways(t, last) == TRUE

GateOpenEarly(t, last) == t - last >= COOLDOWN_PERIOD - 1

\* The gate that stays closed at exactly COOLDOWN_PERIOD.
GateOpenStrict(t, last) == t - last > COOLDOWN_PERIOD

\* audio_detector.py:137, motion_detector.py:104
GateOpen(t, last) == t - last >= COOLDOWN_PERIOD

\* start_recording and stop_recording without their first check.
StartNeverReturnsEarly(rec) == FALSE

StopNeverReturnsEarly(rec) == FALSE

\* obs_controller.py:40  `if self.is_recording: return False`
StartReturnsEarly(rec) == rec

\* obs_controller.py:71  `if not self.is_recording: return False`
StopReturnsEarly(rec) == ~rec

\* obs_controller.py:91  time.sleep(RECORDING_DURATION)
SleepOver(t, due) == t >= due

\* A backend call whose exception reaches the except clause, and the same with
\* the exception lost.
RaisedIgnored(ok) == FALSE

\* obs_controller.py:65  `except Exception as e: ... return False`
Raised(ok) == ~ok

\* The failed call entered again instead of given up.
RetryAfterFailure(pos) == pos

\* obs_controller.py:66-67: the except clause logs and returns False; the
\* sampler thread goes back to its loop.
AfterFailure(pos) == "loop"

\* The status answer not looked at.
BackendBusyIgnored(answer) == FALSE

\* obs_controller.py:47  `if status.datain["isRecording"]: return False`
BackendBusy(answer) == answer

\* The callback invoked twice for one detection.
DispatchTwice(n) == n + 2

\* audio_detector.py:152-153, motion_detector.py:107-108: the callback is
\* invoked once.
Dispatch(n) == n + 1

\* One threshold-crossing reading: when it was sampled, whether the gate
\* accepted it, whether its callback called StartRecording, whether a backend
\* call of its callback raised, and what start_recording returned.
Entry(t, acc, ret) ==
    [t |-> t, acc |-> acc, call |-> FALSE, err |-> FALSE, ret |-> ret]

SetLast(log, f, v) == [log EXCEPT ![Len(log)] = [@ EXCEPT ![f] = v]]

NDet == Len(detLog["audio"]) + Len(detLog["motion"])

----------------------------------------------------------------------------
\* Detector objects as their constructors leave them
\* (audio_detector.py:10-33, motion_detector.py:11-24), the controller
\* connected (main.py:54).
Fresh ==
    [is_running |-> [s \in Samplers |-> FALSE],
     thread |-> [s \in Samplers |-> "none"],
     handle |-> [s \in Samplers |-> "none"],
     result |-> [s \in Samplers |-> "-"],
     owner |-> [s |-> "-", at |-> "idle"],
     apc |-> "running",
     connected |-> TRUE,
     live |-> [s \in Samplers |-> 0],
     releases |-> [s \in Samplers |-> 0],
     last |-> [s \in Samplers |-> "new"],
     read_ok |-> [s \in Samplers |-> TRUE],
     restartAt |-> [s \in Samplers |-> 0],
     ops |-> 0]

\* The same after a start_detection of every detector that succeeded
\* (gui_main.py:1220-1246): the loops run.
Monitoring ==
    [Fresh EXCEPT
        !.is_running = [s \in Samplers |-> TRUE],
        !.thread = [s \in Samplers |-> "run"],
        !.handle = [s \in Samplers |-> "open"],
        !.result = [s \in Samplers |-> "None"],
        !.live = [s \in Samplers |-> 1],
        !.last = [s \in Samplers |-> "started"]]

\* The state after construction, the clock reading t, the backend recording
\* (b) or not, and the detectors as in l.
InitWith(t, b, l) ==
    /\ life = l
    /\ now = t
    /\ last_detection_time = [s \in Samplers |-> 0]
    /\ spc = [s \in Samplers |-> "loop"]
    /\ is_recording = FALSE
    /\ obs = b
    /\ nTimers = 0
    /\ tpc = [k \in TimerIds |-> "unborn"]
    /\ timerDue = [k \in TimerIds |-> 0]
    /\ mpc = "idle"
    /\ detLog = [s \in Samplers |-> <<>>]
    /\ callbacks = [s \in Samplers |-> 0]
    /\ cur = 0
    /\ startedAt = [k \in TimerIds |-> 0]
    /\ stopBy = [k \in 0..MaxDet |-> {}]
    /\ nStop = [k \in 0..MaxDet |-> 0]
    /\ detector = [peak_threshold |-> PeakThresholdDefault,
                   rms_threshold |-> RmsThresholdDefault,
                   audio_data |-> <<>>,
                   current_peak |-> 0,
                   current_rms |-> [sq |-> 0, n |-> 1],
                   peak_triggered |-> FALSE,
                   rms_triggered |-> FALSE,
                   detection_type |-> "none",
                   levels_lock |-> "free",
                   lpc |-> "read",
                   chunk |-> <<>>,
                   peak_from |-> <<>>,
                   rms_from |-> <<>>,
                   gpc |-> "idle",
                   got |-> [peak |-> 0, rms |-> [sq |-> 0, n |-> 1],
                            peak_from |-> <<>>, rms_from |-> <<>>]]

\* The session with its samplers running.
InitAt(t, b) == InitWith(t, b, Monitoring)

Init == InitAt(Epoch, FALSE)

\* The clock is read in seconds: a callback (start_recording, two backend
\* round trips) returns within one reading of it, a sleeping or stopping
\* thread may take any time.
Tick ==
    /\ now < Epoch + MaxTicks
    /\ \A s \in Samplers : spc[s] = "loop"
    /\ now' = now + 1
    /\ UNCHANGED <<life, detector,
                   progVars, detLog, callbacks, cur, startedAt, stopBy, nStop>>

----------------------------------------------------------------------------
(* Sampler threads: _detection_loop, the callback and start_recording *)

\* One iteration of the loop: read a sample, evaluate the thresholds, pass the
\* cooldown check, dispatch the callback, which enters start_recording and
\* reads is_recording.  Only is_recording is shared with other threads.
DetectionLoop(s) ==
    /\ spc[s] = "loop"
    /\ life.is_running[s]
    /\ \E crossing \in BOOLEAN :
         IF ~crossing
         THEN UNCHANGED vars
         ELSE /\ NDet < MaxDet
              /\ IF GateOpen(now, last_detection_time[s])
                 THEN /\ last_detection_time' =
                           [last_detection_time EXCEPT ![s] = now]
                      /\ callbacks' = [callbacks EXCEPT ![s] = Dispatch(@)]
                      /\ IF StartReturnsEarly(is_recording)
                         THEN /\ detLog' = [detLog EXCEPT ![s] =
                                     Append(@, Entry(now, TRUE, "False"))]
                              /\ UNCHANGED spc
                         ELSE /\ detLog' = [detLog EXCEPT ![s] =
                                     Append(@, Entry(now, TRUE, "pending"))]
                              /\ spc' = [spc EXCEPT ![s] = "status"]
                 ELSE /\ detLog' = [detLog EXCEPT ![s] =
                             Append(@, Entry(now, FALSE, "none"))]
                      /\ UNCHANGED <<last_detection_time, callbacks, spc>>
              /\ UNCHANGED <<life, detector,
                             now, is_recording, obs, nTimers, tpc, timerDue,
                             mpc, cur, startedAt, stopBy, nStop>>

\* A backend call returns (TRUE) or raises; after disconnect it raises.
Answers == IF life.connected THEN BOOLEAN ELSE {FALSE}

\* self.ws.call(requests.GetRecordingStatus()): raises, or answers the
\* backend's state.
StatusCall(s) ==
    /\ spc[s] = "status"
    /\ \E ok \in Answers :
         IF ~Raised(ok) /\ ~BackendBusy(obs)
         THEN /\ spc' = [spc EXCEPT ![s] = "start_call"]
              /\ detLog' = [detLog EXCEPT ![s] = SetLast(@, "err", ~ok)]
         ELSE /\ spc' = [spc EXCEPT ![s] =
                           IF Raised(ok) THEN AfterFailure(@) ELSE "loop"]
              /\ detLog' = [detLog EXCEPT ![s] =
                     SetLast(SetLast(@, "err", ~ok), "ret", "False")]
    /\ UNCHANGED <<life, detector,
                   now, last_detection_time, is_recording, obs, nTimers, tpc,
                   timerDue, mpc, callbacks, cur, startedAt, stopBy,
                   nStop>>

\* self.ws.call(requests.StartRecording()): raises, or returns.
StartCall(s) ==
    /\ spc[s] = "start_call"
    /\ \E ok \in Answers :
         IF ~Raised(ok)
         THEN /\ obs' = TRUE
              /\ spc' = [spc EXCEPT ![s] = "start_set"]
              /\ detLog' = [detLog EXCEPT ![s] =
                     SetLast(SetLast(@, "call", TRUE), "err", ~ok)]
         ELSE /\ obs' = obs
              /\ spc' = [spc EXCEPT ![s] = AfterFailure(@)]
              /\ detLog' = [detLog EXCEPT ![s] =
                     SetLast(SetLast(SetLast(@, "call", TRUE), "err", ~ok),
                             "ret", "False")]
    /\ UNCHANGED <<life, detector,
                   now, last_detection_time, is_recording, nTimers, tpc,
                   timerDue, mpc, callbacks, cur, startedAt, stopBy,
                   nStop>>

\* self.is_recording = True; start the auto-stop thread; return True.
StartSet(s) ==
    /\ spc[s] = "start_set"
    /\ is_recording' = TRUE
    /\ nTimers' = nTimers + 1
    /\ tpc' = [tpc EXCEPT ![nTimers + 1] = "sleep"]
    /\ timerDue' = [timerDue EXCEPT ![nTimers + 1] = now + RECORDING_DURATION]
    /\ cur' = nTimers + 1
    /\ startedAt' = [startedAt EXCEPT ![nTimers + 1] = now]
    /\ spc' = [spc EXCEPT ![s] = "loop"]
    /\ detLog' = [detLog EXCEPT ![s] = SetLast(@, "ret", "True")]
    /\ UNCHANGED <<life, detector, now, last_detection_time, obs, mpc, callbacks,
                   stopBy, nStop>>

----------------------------------------------------------------------------
(* stop_recording, run by an auto-stop thread or by the main thread *)

\* The StopRecording call of thread `by` (0: the main thread, k: the auto-stop
\* thread of recording k) is counted for the latest recording.
NoteStop(by) ==
    /\ stopBy' = [stopBy EXCEPT ![cur] = @ \cup {by}]
    /\ nStop' = [nStop EXCEPT ![cur] = IF @ < 2 THEN @ + 1 ELSE 2]

\* _auto_stop_recording: the sleep returns, stop_recording reads is_recording.
TimerWake(k) ==
    /\ tpc[k] = "sleep"
    /\ SleepOver(now, timerDue[k])
    /\ tpc' = [tpc EXCEPT ![k] =
                 IF StopReturnsEarly(is_recording) THEN "done" ELSE "stop_call"]
    /\ UNCHANGED <<life, detector,
                   now, last_detection_time, spc, is_recording, obs, nTimers,
                   timerDue, mpc, detLog, callbacks, cur, startedAt,
                   stopBy, nStop>>

\* self.ws.call(requests.StopRecording()): raises, or returns.
TimerStopCall(k) ==
    /\ tpc[k] = "stop_call"
    /\ NoteStop(k)
    /\ \E ok \in Answers :
         IF ok
         THEN /\ obs' = FALSE
              /\ tpc' = [tpc EXCEPT ![k] = "stop_set"]
         ELSE /\ obs' = obs
              /\ tpc' = [tpc EXCEPT ![k] = "done"]
    /\ UNCHANGED <<life, detector,
                   now, last_detection_time, spc, is_recording, nTimers,
                   timerDue, mpc, detLog, callbacks, cur, startedAt>>

\* self.is_recording = False; return True.
TimerStopSet(k) ==
    /\ tpc[k] = "stop_set"
    /\ is_recording' = FALSE
    /\ tpc' = [tpc EXCEPT ![k] = "done"]
    /\ UNCHANGED <<life, detector,
                   now, last_detection_time, spc, obs, nTimers, timerDue, mpc,
                   detLog, callbacks, cur, startedAt, stopBy, nStop>>

\* stop_recording called from the main thread (AutoRecordingApp.stop).
ManualStop ==
    /\ mpc = "idle"
    /\ mpc' = IF StopReturnsEarly(is_recording) THEN "idle" ELSE "stop_call"
    /\ UNCHANGED <<life, detector,
                   now, last_detection_time, spc, is_recording, obs, nTimers,
                   tpc, timerDue, detLog, callbacks, cur, startedAt, stopBy,
                   nStop>>

MainStopCall ==
    /\ mpc = "stop_call"
    /\ NoteStop(0)
    /\ \E ok \in Answers :
         IF ok
         THEN /\ obs' = FALSE
              /\ mpc' = "stop_set"
         ELSE /\ obs' = obs
              /\ mpc' = "idle"
    /\ UNCHANGED <<life, detector,
                   now, last_detection_time, spc, is_recording, nTimers, tpc,
                   timerDue, detLog, callbacks, cur, startedAt>>

MainStopSet ==
    /\ mpc = "stop_set"
    /\ is_recording' = FALSE
    /\ mpc' = "idle"
    /\ UNCHANGED <<life, detector,
                   now, last_detection_time, spc, obs, nTimers, tpc, timerDue,
                   detLog, callbacks, cur, startedAt, stopBy, nStop>>

----------------------------------------------------------------------------
Next ==
    \/ Tick
    \/ \E s \in Samplers : DetectionLoop(s)
    \/ \E s \in Samplers : StatusCall(s)
    \/ \E s \in Samplers : StartCall(s)
    \/ \E s \in Samplers : StartSet(s)
    \/ \E k \in TimerIds : TimerWake(k)
    \/ \E k \in TimerIds : TimerStopCall(k)
    \/ \E k \in TimerIds : TimerStopSet(k)
    \/ ManualStop
    \/ MainStopCall
    \/ MainStopSet

Spec == Init /\ [][Next]_vars

----------------------------------------------------------------------------
(* The audio loop looked at alone: readings, thresholds, classification *)

\* The threshold reached counts as exceeded.
ReachesOrExceeds(x, th) == x >= th

\* audio_detector.py:129, 132  `peak_level > self.peak_threshold`
Exceeds(x, th) == x > th

\* The label with the RMS condition looked at first.
ClassifyRmsFirst(pt, rt) == IF rt THEN "RMS" ELSE "PEAK"

\* audio_detector.py:141-146
Classify(pt, rt) == IF pt THEN "PEAK" ELSE "RMS"

\* The value an int16 keeps of an integer result.
Wrap16(x) == ((x + FullScale) % Int16Span) - FullScale

\* np.abs on an int16 array: the result is an int16.
Abs16(x) == Wrap16(IF x < 0 THEN -x ELSE x)

\* audio_data**2 on an int16 array: the result is an int16.
Square16(x) == Wrap16(x * x)

\* np.max of two values.
Max(a, b) == IF a >= b THEN a ELSE b

RECURSIVE MaxAbs16(_)
\* np.max(np.abs(audio_data))
MaxAbs16(buf) ==
    IF Len(buf) = 1
    THEN Abs16(buf[1])
    ELSE Max(Abs16(buf[1]), MaxAbs16(Tail(buf)))

RECURSIVE SumSquares16(_)
\* The sum np.mean takes of audio_data**2 (the mean is this over len).
SumSquares16(buf) ==
    IF buf = <<>> THEN 0 ELSE Square16(buf[1]) + SumSquares16(Tail(buf))

\* audio_detector.py:113-117: normalized_rms is sqrt(mean_square) / 32768, or
\* 0.0 when mean_square is negative.
RmsOf(sum, n) == [sq |-> IF sum >= 0 THEN sum ELSE 0, n |-> n]

\* audio_detector.py:112-117
NormalizedRms(buf) == RmsOf(SumSquares16(buf), Len(buf))

\* audio_detector.py:132: sqrt(sq / n) / FullScale > th / FullScale.
RmsTriggered(rms, th) == Exceeds(rms.sq, th * th * rms.n)

\* Sample values and buffers read from the stream.
Samples == {-FullScale, -200, RmsThresholdGui, 181, PeakThresholdDefault}

Buffers == UNION {[1..n -> Samples] : n \in 1..MaxBuf}

PeakSettings == {PeakThresholdDefault \div 2, PeakThresholdDefault}

RmsSettings == {RmsThresholdGui, RmsThresholdDefault}

\* One iteration of AudioDetector._detection_loop on a buffer of the stream
\* (stream.read returns self.chunk samples, never none): peak, rms, pt and rt
\* are peak_level, normalized_rms, peak_triggered and rms_triggered, each
\* computed once.  The callback is counted; what it does is the session's
\* part.
AudioLoop ==
    /\ \E buf \in Buffers :
       \E peak \in {MaxAbs16(buf)} : \E rms \in {NormalizedRms(buf)} :
       \E pt \in {Exceeds(peak, detector.peak_threshold)} :
       \E rt \in {RmsTriggered(rms, detector.rms_threshold)} :
         LET accepted == /\ pt \/ rt
                         /\ GateOpen(now, last_detection_time["audio"])
         IN  /\ detector' = [detector EXCEPT
                     !.audio_data = buf,
                     !.current_peak = peak,
                     !.current_rms = rms,
                     !.peak_from = buf,
                     !.rms_from = buf,
                     !.peak_triggered = pt,
                     !.rms_triggered = rt,
                     !.detection_type =
                         IF accepted THEN Classify(pt, rt) ELSE "none"]
             /\ IF accepted
                THEN /\ last_detection_time' =
                          [last_detection_time EXCEPT !["audio"] = now]
                     /\ callbacks' = [callbacks EXCEPT !["audio"] = Dispatch(@)]
                ELSE UNCHANGED <<last_detection_time, callbacks>>
    /\ UNCHANGED <<life, now, spc, is_recording, obs, nTimers, tpc, timerDue,
                   mpc, detLog, cur, startedAt, stopBy, nStop>>

\* gui_main.py:1176-1180
update_peak_threshold ==
    /\ \E value \in PeakSettings :
          detector' = [detector EXCEPT !.peak_threshold = value]
    /\ UNCHANGED <<life, now, progVars, detLog, callbacks, cur, startedAt,
                   stopBy, nStop>>

\* gui_main.py:1182-1186
update_rms_threshold ==
    /\ \E value \in RmsSettings :
          detector' = [detector EXCEPT !.rms_threshold = value]
    /\ UNCHANGED <<life, now, progVars, detLog, callbacks, cur, startedAt,
                   stopBy, nStop>>

NextAudio ==
    \/ Tick
    \/ AudioLoop
    \/ update_peak_threshold
    \/ update_rms_threshold

SpecAudio == Init /\ [][NextAudio]_vars

----------------------------------------------------------------------------
(* The cached readings: the loop writes them, the GUI thread reads them *)

\* A lock taken whoever holds it.
AcquirableAlways(holder) == TRUE

\* audio_detector.py:120, 166  `with self.levels_lock:` blocks until the lock
\* is free.
Acquirable(holder) == holder = "free"

\* Buffers of the stream for the steps below: one sample each.
LevelBuffers == {b \in Buffers : Len(b) = 1}

SessionVars == <<life, now, progVars, detLog, callbacks, cur, startedAt,
                 stopBy, nStop>>

\* audio_detector.py:102-117: a buffer is read and its readings are computed;
\* an empty buffer ends the iteration (line 107).
LevelsRead ==
    /\ detector.lpc = "read"
    /\ \E buf \in LevelBuffers \cup {<<>>} :
          detector' = [detector EXCEPT
              !.chunk = buf,
              !.lpc = IF Len(buf) > 0 THEN "lock" ELSE "read"]
    /\ UNCHANGED SessionVars

\* audio_detector.py:120
LevelsLock ==
    /\ detector.lpc = "lock"
    /\ Acquirable(detector.levels_lock)
    /\ detector' = [detector EXCEPT !.levels_lock = "loop", !.lpc = "peak"]
    /\ UNCHANGED SessionVars

\* audio_detector.py:121  self.current_peak = peak_level
LevelsWritePeak ==
    /\ detector.lpc = "peak"
    /\ detector' = [detector EXCEPT
           !.current_peak = MaxAbs16(detector.chunk),
           !.peak_from = detector.chunk,
           !.lpc = "rms"]
    /\ UNCHANGED SessionVars

\* audio_detector.py:122  self.current_rms = normalized_rms
LevelsWriteRms ==
    /\ detector.lpc = "rms"
    /\ detector' = [detector EXCEPT
           !.current_rms = NormalizedRms(detector.chunk),
           !.rms_from = detector.chunk,
           !.lpc = "data"]
    /\ UNCHANGED SessionVars

\* audio_detector.py:124-126: self.current_audio_data is stored and the with
\* block ends.
LevelsUnlock ==
    /\ detector.lpc = "data"
    /\ detector' = [detector EXCEPT
           !.audio_data = detector.chunk,
           !.levels_lock = "free",
           !.lpc = "detect"]
    /\ UNCHANGED SessionVars

\* audio_detector.py:128-153: the thresholds, the cooldown check and the
\* callback, on the loop's local readings.
LevelsDetect ==
    /\ detector.lpc = "detect"
    /\ \E pt \in {Exceeds(MaxAbs16(detector.chunk), detector.peak_threshold)} :
       \E rt \in {RmsTriggered(NormalizedRms(detector.chunk),
                               detector.rms_threshold)} :
         LET accepted == /\ pt \/ rt
                         /\ GateOpen(now, last_detection_time["audio"])
         IN  /\ detector' = [detector EXCEPT
                     !.peak_triggered = pt,
                     !.rms_triggered = rt,
                     !.detection_type =
                         IF accepted THEN Classify(pt, rt) ELSE "none",
                     !.lpc = "read"]
             /\ IF accepted
                THEN /\ last_detection_time' =
                          [last_detection_time EXCEPT !["audio"] = now]
                     /\ callbacks' = [callbacks EXCEPT !["audio"] = Dispatch(@)]
                ELSE UNCHANGED <<last_detection_time, callbacks>>
    /\ UNCHANGED <<life, now, spc, is_recording, obs, nTimers, tpc, timerDue,
                   mpc, detLog, cur, startedAt, stopBy, nStop>>

\* get_current_levels, called by the GUI's update thread (gui_main.py:1319):
\* audio_detector.py:166
GetLock ==
    /\ detector.gpc = "idle"
    /\ Acquirable(detector.levels_lock)
    /\ detector' = [detector EXCEPT !.levels_lock = "gui", !.gpc = "peak"]
    /\ UNCHANGED SessionVars

\* audio_detector.py:167: self.current_peak is read
GetPeak ==
    /\ detector.gpc = "peak"
    /\ detector' = [detector EXCEPT
           !.got.peak = detector.current_peak,
           !.got.peak_from = detector.peak_from,
           !.gpc = "rms"]
    /\ UNCHANGED SessionVars

\* audio_detector.py:167: self.current_rms is read, the pair is returned and
\* the with block ends.
GetRms ==
    /\ detector.gpc = "rms"
    /\ detector' = [detector EXCEPT
           !.got.rms = detector.current_rms,
           !.got.rms_from = detector.rms_from,
           !.levels_lock = "free",
           !.gpc = "idle"]
    /\ UNCHANGED SessionVars

NextLevels ==
    \/ Tick
    \/ LevelsRead
    \/ LevelsLock
    \/ LevelsWritePeak
    \/ LevelsWriteRms
    \/ LevelsUnlock
    \/ LevelsDetect
    \/ GetLock
    \/ GetPeak
    \/ GetRms

SpecLevels == Init /\ [][NextLevels]_vars

----------------------------------------------------------------------------
(* Life cycle of a detector: start_detection, the loop, stop_detection *)

\* Calls of the owning thread explored in a run.
MaxOps == 4

\* start_detection without its first check.
AlreadyRunningIgnored(running) == FALSE

\* audio_detector.py:72, motion_detector.py:50  `if self.is_running: return`
AlreadyRunning(running) == running

\* A join that returns at once.
JoinSkipped(th) == TRUE

\* audio_detector.py:89, motion_detector.py:67  self.thread.join() returns
\* when the thread has ended; `if self.thread` skips it when there is none.
Joined(th) == th \in {"none", "exited"}

\* The loop left on a failing read.
ExitOnReadError(pos) == "exited"

\* audio_detector.py:155-157, motion_detector.py:87-89, 113-115: a failing
\* read is logged and the loop goes on to its next iteration.
OnReadError(pos) == "run"

\* What start_detection returns: it has no return value on any path
\* (audio_detector.py:70-83, motion_detector.py:48-61).
StartResult(outcome) == "None"

\* Everything the life-cycle steps leave alone.
LifeFrame == <<detector, now, spc, is_recording, obs, nTimers, tpc, timerDue,
               mpc, cur, startedAt, stopBy, nStop>>

\* The owning thread is between two calls.  A run follows the life cycle of
\* one detector; the other one stays as constructed.
OwnerIdle(s) ==
    /\ life.owner.at = "idle"
    /\ life.ops < MaxOps
    /\ \A o \in Samplers \ {s} : life.last[o] = "new"

\* gui_main.py:1224-1236: start_monitoring builds new detector objects; the
\* ones before were stopped and dropped by stop_monitoring (1251-1259), or
\* there were none.  A new object starts with last_detection_time = 0.
Construct(s) ==
    /\ OwnerIdle(s)
    /\ life.thread[s] \in {"none", "exited"}
    /\ life' = [life EXCEPT
           !.is_running[s] = FALSE,
           !.thread[s] = "none",
           !.handle[s] = "none",
           !.result[s] = "-",
           !.releases[s] = 0,
           !.last[s] = "new",
           !.restartAt[s] = Len(detLog[s]),
           !.ops = @ + 1]
    /\ last_detection_time' = [last_detection_time EXCEPT ![s] = 0]
    /\ UNCHANGED <<LifeFrame, detLog, callbacks>>

\* start_detection: returns when already running; initialize_audio /
\* initialize_camera opens the device (ok) or fails and returns False; on
\* success is_running is set and the daemon thread is started.
start_detection(s) ==
    /\ OwnerIdle(s)
    /\ IF AlreadyRunning(life.is_running[s])
       THEN life' = [life EXCEPT
                !.result[s] = StartResult("already_running"),
                !.last[s] = "already_running",
                !.ops = @ + 1]
       ELSE \E ok \in BOOLEAN :
              IF ok
              THEN life' = [life EXCEPT
                       !.handle[s] = "open",
                       !.releases[s] = 0,
                       !.is_running[s] = TRUE,
                       !.thread[s] = "run",
                       !.live[s] = @ + 1,
                       !.result[s] = StartResult("started"),
                       !.last[s] = "started",
                       !.ops = @ + 1]
              ELSE life' = [life EXCEPT
                       !.result[s] = StartResult("init_failed"),
                       !.last[s] = "init_failed",
                       !.ops = @ + 1]
    /\ UNCHANGED <<LifeFrame, last_detection_time, detLog, callbacks>>

\* stop_detection, first line: self.is_running = False
StopBegin(s) ==
    /\ OwnerIdle(s)
    /\ life' = [life EXCEPT
           !.is_running[s] = FALSE,
           !.owner = [s |-> s, at |-> "join"],
           !.last[s] = "stopping",
           !.ops = @ + 1]
    /\ UNCHANGED <<LifeFrame, last_detection_time, detLog, callbacks>>

\* `if self.thread: self.thread.join()`
StopJoin(s) ==
    /\ life.owner = [s |-> s, at |-> "join"]
    /\ Joined(life.thread[s])
    /\ life' = [life EXCEPT !.owner.at = "release"]
    /\ UNCHANGED <<LifeFrame, last_detection_time, detLog, callbacks>>

\* `if self.stream: self.stream.stop_stream(); self.stream.close()` and
\* `if self.cap: self.cap.release()`.  The attribute is not reset, so a later
\* call finds the released handle and releases it again: cap.release()
\* returns, stop_stream() on a closed stream raises or returns.
StopRelease(s) ==
    /\ life.owner = [s |-> s, at |-> "release"]
    /\ \E raises \in BOOLEAN :
         CASE life.handle[s] = "none" ->
                /\ ~raises
                /\ life' = [life EXCEPT
                       !.owner = [s |-> "-", at |-> "idle"],
                       !.last[s] = "stopped"]
           [] life.handle[s] = "open" ->
                /\ ~raises
                /\ life' = [life EXCEPT
                       !.handle[s] = "closed",
                       !.releases[s] = @ + 1,
                       !.owner = [s |-> "-", at |-> "idle"],
                       !.last[s] = "stopped"]
           [] life.handle[s] = "closed" ->
                IF raises /\ s = "audio"
                THEN life' = [life EXCEPT
                         !.owner = [s |-> "-", at |-> "idle"],
                         !.last[s] = "stop_raised"]
                ELSE /\ ~raises
                     /\ life' = [life EXCEPT
                            !.releases[s] = @ + 1,
                            !.owner = [s |-> "-", at |-> "idle"],
                            !.last[s] = "stopped"]
    /\ UNCHANGED <<LifeFrame, last_detection_time, detLog, callbacks>>

\* `while self.is_running:` evaluated by the detection thread.
LoopEnter(s) ==
    /\ life.thread[s] = "run"
    /\ life' = IF life.is_running[s]
               THEN [life EXCEPT !.thread[s] = "read"]
               ELSE [life EXCEPT !.thread[s] = "exited", !.live[s] = @ - 1]
    /\ UNCHANGED <<LifeFrame, last_detection_time, detLog, callbacks>>

\* The body of one iteration: the read fails (an exception, or ret False
\* from cap.read), or it returns a reading that crosses the threshold or
\* not; a crossing reading goes through the cooldown check to the callback,
\* which is counted.
LoopBody(s) ==
    /\ life.thread[s] = "read"
    /\ \E ok \in BOOLEAN : \E crossing \in BOOLEAN :
         IF ~ok
         THEN /\ ~crossing
              /\ life' = [life EXCEPT
                     !.thread[s] = OnReadError(@),
                     !.live[s] = IF OnReadError("read") = "exited"
                                 THEN @ - 1 ELSE @,
                     !.read_ok[s] = FALSE]
              /\ UNCHANGED <<last_detection_time, detLog, callbacks>>
         ELSE /\ life' = [life EXCEPT !.thread[s] = "run",
                                      !.read_ok[s] = TRUE]
              /\ IF ~crossing
                 THEN UNCHANGED <<last_detection_time, detLog, callbacks>>
                 ELSE /\ NDet < MaxDet
                      /\ IF GateOpen(now, last_detection_time[s])
                         THEN /\ last_detection_time' =
                                   [last_detection_time EXCEPT ![s] = now]
                              /\ callbacks' =
                                   [callbacks EXCEPT ![s] = Dispatch(@)]
                              /\ detLog' = [detLog EXCEPT ![s] =
                                     Append(@, Entry(now, TRUE, "none"))]
                         ELSE /\ detLog' = [detLog EXCEPT ![s] =
                                     Append(@, Entry(now, FALSE, "none"))]
                              /\ UNCHANGED <<last_detection_time, callbacks>>
    /\ UNCHANGED LifeFrame

NextLifecycle ==
    \/ Tick
    \/ \E s \in Samplers : Construct(s)
    \/ \E s \in Samplers : start_detection(s)
    \/ \E s \in Samplers : StopBegin(s)
    \/ \E s \in Samplers : StopJoin(s)
    \/ \E s \in Samplers : StopRelease(s)
    \/ \E s \in Samplers : LoopEnter(s)
    \/ \E s \in Samplers : LoopBody(s)

SpecLifecycle == InitWith(Epoch, FALSE, Fresh) /\ [][NextLifecycle]_vars

----------------------------------------------------------------------------
(* AutoRecordingApp.stop, run by the main thread while the session runs *)

\* main.py:78-79: the shutdown begins.
AppStop ==
    /\ life.apc = "running"
    /\ life' = [life EXCEPT !.apc = "samplers"]
    /\ UNCHANGED <<LifeFrame, last_detection_time, detLog, callbacks>>

\* main.py:81-85: stop_detection of the motion detector, then of the audio
\* detector; this is its first line, StopJoin and StopRelease are the rest.
AppStopDetection(s) ==
    /\ life.apc = "samplers"
    /\ life.owner.at = "idle"
    /\ life.last[s] = "started"
    /\ s = "audio" => life.last["motion"] = "stopped"
    /\ life' = [life EXCEPT
           !.is_running[s] = FALSE,
           !.owner = [s |-> s, at |-> "join"],
           !.last[s] = "stopping"]
    /\ UNCHANGED <<LifeFrame, last_detection_time, detLog, callbacks>>

\* `while self.is_running:` evaluated False by a sampler thread that is
\* between two iterations: the thread ends.
LoopExit(s) ==
    /\ spc[s] = "loop"
    /\ life.thread[s] = "run"
    /\ ~life.is_running[s]
    /\ life' = [life EXCEPT !.thread[s] = "exited", !.live[s] = @ - 1]
    /\ UNCHANGED <<LifeFrame, last_detection_time, detLog, callbacks>>

\* main.py:87-89  `if self.obs_controller.is_recording:
\* self.obs_controller.stop_recording()`, up to stop_recording's own check.
AppStopRecording ==
    /\ life.apc = "samplers"
    /\ life.owner.at = "idle"
    /\ \A s \in Samplers : life.last[s] = "stopped"
    /\ mpc = "idle"
    /\ IF StopReturnsEarly(is_recording)
       THEN /\ life' = [life EXCEPT !.apc = "disconnect"]
            /\ mpc' = mpc
       ELSE /\ life' = [life EXCEPT !.apc = "stop_recording"]
            /\ mpc' = "stop_call"
    /\ UNCHANGED <<detector, now, last_detection_time, spc, is_recording, obs,
                   nTimers, tpc, timerDue, detLog, callbacks, cur, startedAt,
                   stopBy, nStop>>

\* main.py:91-92, obs_controller.py:32-36: disconnect, once stop_recording
\* has returned; stop returns.
AppDisconnect ==
    /\ life.apc \in {"stop_recording", "disconnect"}
    /\ mpc = "idle"
    /\ life' = [life EXCEPT !.connected = FALSE, !.apc = "stopped"]
    /\ UNCHANGED <<LifeFrame, last_detection_time, detLog, callbacks>>

NextShutdown ==
    \/ Tick
    \/ \E s \in Samplers : DetectionLoop(s)
    \/ \E s \in Samplers : StatusCall(s)
    \/ \E s \in Samplers : StartCall(s)
    \/ \E s \in Samplers : StartSet(s)
    \/ \E k \in TimerIds : TimerWake(k)
    \/ \E k \in TimerIds : TimerStopCall(k)
    \/ \E k \in TimerIds : TimerStopSet(k)
    \/ AppStop
    \/ \E s \in Samplers : AppStopDetection(s)
    \/ \E s \in Samplers : LoopExit(s)
    \/ \E s \in Samplers : StopJoin(s)
    \/ \E s \in Samplers : StopRelease(s)
    \/ AppStopRecording
    \/ MainStopCall
    \/ MainStopSet
    \/ AppDisconnect

SpecShutdown == Init /\ [][NextShutdown]_vars

----------------------------------------------------------------------------
(* Readings of the history *)

Log(s) == detLog[s]

AcceptedIn(s, i, j) == {m \in i..j : Log(s)[m].acc}

Dets == {<<s, i>> : s \in Samplers, i \in 1..MaxDet}

IsDet(d) == d[2] <= Len(Log(d[1]))

DetOf(d) == Log(d[1])[d[2]]

Dist(a, b) == IF a >= b THEN a - b ELSE b - a

Last(q) == q[Len(q)]

----------------------------------------------------------------------------
(* C1 *)

\* C1: in every gate two accepted detections are never less than
\* COOLDOWN_PERIOD apart, and the callback has been invoked once per accepted
\* detection: a threshold-crossing reading inside the window is dropped
\* without a callback.
C1_CooldownInvariant ==
    \A s \in Samplers :
        /\ \A i, j \in DOMAIN Log(s) :
              (i < j /\ Log(s)[i].acc /\ Log(s)[j].acc)
                  => Log(s)[j].t - Log(s)[i].t >= COOLDOWN_PERIOD
        /\ callbacks[s] = Cardinality(AcceptedIn(s, 1, Len(Log(s))))

\* A gate that accepted a detection, dropped a later one inside the window
\* and has invoked its callback once.
C1_Witness ==
    \E s \in Samplers : \E i, j \in DOMAIN Log(s) :
        /\ i < j
        /\ Log(s)[i].acc
        /\ ~Log(s)[j].acc
        /\ Log(s)[j].t > Log(s)[i].t
        /\ Log(s)[j].t - Log(s)[i].t < COOLDOWN_PERIOD
        /\ callbacks[s] = 1

(* C2 *)

\* C2: an audio detection and a motion detection less than COOLDOWN_PERIOD
\* apart are never both accepted (one callback invocation for the two).
C2_SharedGate ==
    \A i \in DOMAIN Log("audio") : \A j \in DOMAIN Log("motion") :
        (Log("audio")[i].acc /\ Log("motion")[j].acc)
            => Dist(Log("audio")[i].t, Log("motion")[j].t) >= COOLDOWN_PERIOD

(* C3 *)

\* C3: of two detections in the same cooldown window one and only one
\* triggers a StartRecording call; stated for what the code breaks: never
\* both of them.
C3_OneStartPerWindow ==
    \A d, e \in Dets :
        (d # e /\ IsDet(d) /\ IsDet(e)
              /\ Dist(DetOf(d).t, DetOf(e).t) < COOLDOWN_PERIOD)
            => ~(DetOf(d).call /\ DetOf(e).call)

(* C4 *)

\* A recording started by this session is active, or is being started by a
\* thread other than s.
SessionActive(s) ==
    \/ is_recording
    \/ \E o \in Samplers \ {s} : spc[o] = "start_set"

\* C4: the backend receives no StartRecording while a recording started by
\* this session is active: every step that issues the call is taken with the
\* session idle.
C4_NoSecondStart ==
    [][\A s \in Samplers :
          (spc[s] = "start_call" /\ spc'[s] # "start_call")
              => ~SessionActive(s)]_vars

(* C5 *)

\* C5: when a recording j was stopped from the main thread and a recording k
\* was started after it, before the auto-stop thread of j was due, that
\* thread issues no StopRecording for k.
C5_StaleTimerInert ==
    \A j, k \in TimerIds :
        (/\ 0 \in stopBy[j]
         /\ tpc[k] # "unborn"
         /\ startedAt[j] < startedAt[k]
         /\ startedAt[k] < timerDue[j])
            => j \notin stopBy[k]

(* C6 *)

\* C6: when an auto-stop thread that found the session recording finishes,
\* the session is idle, whatever the StopRecording call answered.
C6_AutoStopEndsIdle ==
    [][\A k \in TimerIds :
          (tpc[k] \in {"stop_call", "stop_set"} /\ tpc'[k] = "done")
              => ~is_recording']_vars

(* C7 *)

\* C7: once the auto-stop thread of a recording that was never stopped from
\* the main thread has finished, that recording is over and exactly one
\* StopRecording call was made for it.
C7_AutoStopOnce ==
    \A k \in TimerIds :
        (tpc[k] = "done" /\ 0 \notin stopBy[k])
            => /\ (cur = k => ~is_recording)
               /\ nStop[k] = 1

(* C8 *)

C9_SecondStartRefused ==
    [][\A s \in Samplers :
          (callbacks'[s] # callbacks[s] /\ is_recording)
              => /\ spc'[s] = "loop"
                 /\ Last(detLog'[s]).ret = "False"
                 /\ ~Last(detLog'[s]).call
                 /\ UNCHANGED <<is_recording, obs, nTimers, tpc>>]_vars

\* Two calls of one sampler, the first started the recording, the second
\* found it running: one StartRecording call in all.
C9_Witness ==
    \E s \in Samplers : \E i, j \in DOMAIN Log(s) :
        /\ i < j
        /\ Log(s)[i].ret = "True" /\ Log(s)[i].call
        /\ Log(s)[j].acc /\ Log(s)[j].ret = "False" /\ ~Log(s)[j].call
        /\ is_recording
        /\ nTimers = 1
        /\ \A k \in 0..MaxDet : nStop[k] = 0
        /\ Cardinality({d \in Dets : IsDet(d) /\ DetOf(d).call}) = 1

(* C10 *)

\* Consecutive detections i..j of a gate, each later than the one before by
\* less than COOLDOWN_PERIOD.
CloseChain(s, i, j) ==
    \A m \in i..(j - 1) :
        /\ Log(s)[m + 1].t > Log(s)[m].t
        /\ Log(s)[m + 1].t - Log(s)[m].t < COOLDOWN_PERIOD

LatestAccepted(s, i, j) ==
    /\ Log(s)[i].acc
    /\ \A m \in DOMAIN Log(s) : (i < m /\ m < j) => ~Log(s)[m].acc

\* C11: a detection that comes COOLDOWN_PERIOD or more after the latest
\* accepted detection of its gate is accepted, whatever was rejected in
\* between, and the gate's timestamp is the time of its latest accepted
\* detection.
C11_ReopensAfterCooldown ==
    \A s \in Samplers : \A i \in DOMAIN Log(s) :
        /\ \A j \in DOMAIN Log(s) :
              (/\ i < j
               /\ LatestAccepted(s, i, j)
               /\ Log(s)[j].t - Log(s)[i].t >= COOLDOWN_PERIOD)
                  => Log(s)[j].acc
        /\ LatestAccepted(s, i, Len(Log(s)) + 1)
              => last_detection_time[s] = Log(s)[i].t

\* A gate that accepted at t, rejected one second later and accepted again at
\* exactly t + COOLDOWN_PERIOD, which is its new timestamp.
C11_Witness ==
    \E s \in Samplers :
        /\ Len(Log(s)) = 3
        /\ Log(s)[1].acc /\ ~Log(s)[2].acc /\ Log(s)[3].acc
        /\ Log(s)[2].t > Log(s)[1].t
        /\ Log(s)[3].t = Log(s)[1].t + COOLDOWN_PERIOD
        /\ last_detection_time[s] = Log(s)[3].t

(* C12 *)

\* The program started on a host whose clock reads the start of the epoch
\* (time.time() is smaller than COOLDOWN_PERIOD).
SpecEarlyClock == InitAt(0, FALSE) /\ [][Next]_vars

\* C12: the first detection of every gate is accepted, whatever the clock
\* reads.
C12_FirstDetectionPasses ==
    \A s \in Samplers : Len(Log(s)) >= 1 => Log(s)[1].acc

(* C13 *)

\* The backend may be recording already when the program starts (a recording
\* started by hand in OBS).
SpecBackend == (\E b \in BOOLEAN : InitAt(Epoch, b)) /\ [][Next]_vars

\* Sampler s leaves the position pos of start_recording in this step.
Leaves(s, pos) == spc[s] = pos /\ <<spc[s], detLog[s]>>' # <<spc[s], detLog[s]>>

\* C13: a status query answered "recording" while the session is idle makes
\* start_recording return False: the thread is back in its loop, no
\* StartRecording call was made, no auto-stop thread was created and the
\* session is still idle.
C13_AlreadyRecordingRefused ==
    [][\A s \in Samplers :
          (Leaves(s, "status") /\ obs /\ ~is_recording)
              => /\ spc'[s] = "loop"
                 /\ Last(detLog'[s]).ret = "False"
                 /\ ~Last(detLog'[s]).call
                 /\ ~is_recording'
                 /\ UNCHANGED <<obs, nTimers, tpc, timerDue>>]_vars

\* An accepted detection whose start_recording returned False without a
\* backend exception and without a StartRecording call, in a session that
\* never recorded, the backend recording.
C13_Witness ==
    /\ obs /\ ~is_recording /\ nTimers = 0
    /\ \E s \in Samplers :
          /\ Len(Log(s)) >= 1
          /\ spc[s] = "loop"
          /\ Last(Log(s)).acc /\ ~Last(Log(s)).err /\ ~Last(Log(s)).call
          /\ Last(Log(s)).ret = "False"

(* C14 *)

\* The detections whose start_recording returned True.
Started == {d \in Dets : IsDet(d) /\ DetOf(d).ret = "True"}

\* C14: a backend call of start_recording that raises makes it return False
\* with is_recording and the auto-stop threads as they were; an auto-stop
\* thread is created only by a start_recording whose StartRecording call
\* returned, and there are as many of them as start_recording calls that
\* returned True.
C14_TimerOnlyAfterBackendStart ==
    [][/\ \A s \in Samplers :
             (/\ Leaves(s, "status") \/ Leaves(s, "start_call")
              /\ Last(detLog'[s]).err)
                 => /\ spc'[s] = "loop"
                    /\ Last(detLog'[s]).ret = "False"
                    /\ UNCHANGED <<is_recording, obs, nTimers, tpc, timerDue>>
       /\ nTimers' # nTimers
             => /\ nTimers' = nTimers + 1
                /\ \E s \in Samplers :
                      /\ Leaves(s, "start_set")
                      /\ Last(detLog[s]).call /\ ~Last(detLog[s]).err
                      /\ Last(detLog'[s]).ret = "True"
       /\ nTimers' = Cardinality(Started')]_vars

\* A run with a status query that raised, a StartRecording call that raised
\* and a start that succeeded: one auto-stop thread.
C14_Witness ==
    /\ nTimers = 1
    /\ \E d, e, f \in Dets :
          /\ IsDet(d) /\ IsDet(e) /\ IsDet(f)
          /\ DetOf(d).err /\ ~DetOf(d).call /\ DetOf(d).ret = "False"
          /\ DetOf(e).err /\ DetOf(e).call /\ DetOf(e).ret = "False"
          /\ DetOf(f).ret = "True"

(* C15 *)

\* The auto-stop threads that have issued a StopRecording call.
Stoppers == UNION {stopBy[k] : k \in 0..MaxDet}

\* C15: every StartRecording call is made for an accepted detection that had
\* no backend call or failure before, every auto-stop thread issues at most
\* one StopRecording call, and a detection of a gate within COOLDOWN_PERIOD
\* of an accepted detection of that gate whose start failed is rejected and
\* calls nothing.
C15_NoRetryAfterFailure ==
    [][/\ \A s \in Samplers :
             Leaves(s, "start_call")
                 => /\ Last(detLog[s]).acc
                    /\ ~Last(detLog[s]).call
                    /\ ~Last(detLog[s]).err
       /\ \A s \in Samplers :
             Leaves(s, "status") => ~Last(detLog[s]).err
       /\ \A k \in TimerIds :
             (tpc[k] = "stop_call" /\ tpc'[k] # "stop_call")
                 => k \notin Stoppers
       /\ \A s \in Samplers : \A i, j \in DOMAIN detLog'[s] :
             (/\ i < j
              /\ detLog'[s][i].acc /\ detLog'[s][i].err
              /\ detLog'[s][j].t - detLog'[s][i].t < COOLDOWN_PERIOD)
                 => ~detLog'[s][j].acc /\ ~detLog'[s][j].call]_vars

\* A gate whose accepted detection failed at the backend and which rejected a
\* later detection inside the cooldown period, no recording started.
C15_Witness ==
    /\ nTimers = 0 /\ ~obs
    /\ \E s \in Samplers : \E i, j \in DOMAIN Log(s) :
          /\ i < j
          /\ Log(s)[i].acc /\ Log(s)[i].err
          /\ Log(s)[j].t > Log(s)[i].t
          /\ Log(s)[j].t - Log(s)[i].t < COOLDOWN_PERIOD
          /\ ~Log(s)[j].acc

(* C20 *)

\* C20: a step writes the cooldown timestamp of a sampler exactly when it
\* invokes that sampler's callback, once; a rejected reading does neither.
\* So the callback invocations of a sampler count the updates of its
\* timestamp.
C20_CallbackOncePerAccepted ==
    [][\A s \in Samplers :
          /\ last_detection_time'[s] # last_detection_time[s]
                <=> callbacks'[s] = callbacks[s] + 1
          /\ last_detection_time'[s] = last_detection_time[s]
                <=> callbacks'[s] = callbacks[s]
          /\ (Len(detLog'[s]) > Len(detLog[s]) /\ ~Last(detLog'[s]).acc)
                => /\ callbacks'[s] = callbacks[s]
                   /\ last_detection_time'[s] = last_detection_time[s]
          /\ (Len(detLog'[s]) > Len(detLog[s]) /\ Last(detLog'[s]).acc)
                => /\ callbacks'[s] = callbacks[s] + 1
                   /\ last_detection_time'[s] = now]_vars

\* Both samplers have invoked their callback once, and one of them has
\* rejected a reading since.
C20_Witness ==
    /\ \A s \in Samplers : callbacks[s] = 1 /\ last_detection_time[s] > 0
    /\ \E s \in Samplers :
          Len(Log(s)) = 2 /\ Log(s)[1].acc /\ ~Log(s)[2].acc

----------------------------------------------------------------------------
(* Readings of a buffer in exact integer arithmetic *)

Abs(x) == IF x < 0 THEN -x ELSE x

RECURSIVE TrueMaxAbs(_)
TrueMaxAbs(buf) ==
    IF Len(buf) = 1
    THEN Abs(buf[1])
    ELSE LET m == TrueMaxAbs(Tail(buf))
         IN  IF Abs(buf[1]) >= m THEN Abs(buf[1]) ELSE m

\* The exact sum of squares of a buffer is SqHigh * Int16Span + SqLow.
RECURSIVE SqHigh(_)
SqHigh(buf) ==
    IF buf = <<>> THEN 0
    ELSE ((buf[1] * buf[1]) \div Int16Span) + SqHigh(Tail(buf))

RECURSIVE SqLow(_)
SqLow(buf) ==
    IF buf = <<>> THEN 0
    ELSE ((buf[1] * buf[1]) % Int16Span) + SqLow(Tail(buf))

\* The sum of squares the code took is the exact one.
ExactSquares(buf) == SqHigh(buf) = 0 /\ SumSquares16(buf) = SqLow(buf)

\* sqrt(mean(sample^2)) / FullScale > th / FullScale, in exact arithmetic.
TrueRmsAbove(buf, th) ==
    LET h == SqHigh(buf) + (SqLow(buf) \div Int16Span)
        l == SqLow(buf) % Int16Span
        t == th * th * Len(buf)
    IN  \/ h > t \div Int16Span
        \/ h = t \div Int16Span /\ l > t % Int16Span

\* This step is an iteration of the audio loop: the step of SpecAudio that
\* changes neither the clock nor a threshold.
AudioStep ==
    /\ now' = now
    /\ detector'.peak_threshold = detector.peak_threshold
    /\ detector'.rms_threshold = detector.rms_threshold

\* The rms reading sqrt(sq / n) / FullScale is above th / FullScale.
RmsAbove(rms, th) == rms.sq > th * th * rms.n

(* C16 *)

C17_PeakLabelHasPriority ==
    [][AudioStep =>
          LET peakAbove == detector'.current_peak > detector.peak_threshold
              rmsAbove == RmsAbove(detector'.current_rms,
                                   detector.rms_threshold)
              open == now - last_detection_time["audio"] >= COOLDOWN_PERIOD
              label == detector'.detection_type
          IN  /\ peakAbove => detector'.peak_triggered
              /\ (peakAbove /\ open) => label = "PEAK"
              /\ label = "PEAK" => peakAbove
              /\ (rmsAbove /\ ~peakAbove /\ open) => label = "RMS"
              /\ label = "RMS" => (rmsAbove /\ ~peakAbove)
              /\ label # "none"
                    => callbacks'["audio"] = callbacks["audio"] + 1]_vars

\* A detection classified "PEAK" whose rms reading was above the rms
\* threshold too.
C17_Witness ==
    /\ detector.detection_type = "PEAK"
    /\ detector.peak_triggered /\ detector.rms_triggered
    /\ detector.current_peak > detector.peak_threshold
    /\ RmsAbove(detector.current_rms, detector.rms_threshold)
    /\ callbacks["audio"] = 1

(* C18 *)

\* C18: the rms reading of every buffer is taken from the exact squares of
\* its samples, so a buffer whose exact rms is above the rms threshold
\* triggers a detection.
C18_RmsIsExact ==
    [][AudioStep =>
          /\ ExactSquares(detector'.audio_data)
          /\ TrueRmsAbove(detector'.audio_data, detector.rms_threshold)
                => (detector'.peak_triggered \/ detector'.rms_triggered)]_vars

(* C19 *)

\* C19: the peak reading of every buffer is in [0, 1] and is the largest
\* absolute sample value over FullScale, and the rms reading is in [0, 1].
C19_ReadingsInRange ==
    detector.audio_data # <<>>
        => /\ detector.current_peak \in 0..FullScale
           /\ detector.current_peak = TrueMaxAbs(detector.audio_data)
           /\ detector.current_rms.sq >= 0
           /\ detector.current_rms.sq \div FullScale
                  <= FullScale * detector.current_rms.n

(* C26 *)

\* C26: a detection accepted while the session is recording changes nothing
\* of the session: start_recording returns False without a backend call, the
\* session is still recording, no auto-stop thread is created or re-armed, and
\* the auto-stop thread of the recording is still due RECORDING_DURATION after
\* the start of the recording.
C26_DetectionWhileRecordingIsInert ==
    [][\A s \in Samplers :
          (callbacks'[s] # callbacks[s] /\ is_recording)
              => /\ Last(detLog'[s]).ret = "False"
                 /\ ~Last(detLog'[s]).call
                 /\ spc'[s] = "loop"
                 /\ is_recording'
                 /\ UNCHANGED <<obs, nTimers, tpc, timerDue, cur, startedAt,
                                stopBy, nStop>>
                 /\ \A k \in 1..nTimers' :
                        timerDue'[k] = startedAt'[k] + RECORDING_DURATION]_vars

\* A recording started at t, a detection of the other sampler refused during
\* it, and the only auto-stop thread stopping the recording at
\* t + RECORDING_DURATION.
C26_Witness ==
    \E s, o \in Samplers : \E i \in DOMAIN Log(s) : \E j \in DOMAIN Log(o) :
        /\ s # o
        /\ Log(s)[i].ret = "True"
        /\ Log(o)[j].acc /\ Log(o)[j].ret = "False" /\ ~Log(o)[j].call
        /\ Log(o)[j].t > Log(s)[i].t
        /\ Log(o)[j].t < Log(s)[i].t + RECORDING_DURATION
        /\ nTimers = 1
        /\ startedAt[1] = Log(s)[i].t
        /\ tpc[1] = "done" /\ stopBy[1] = {1} /\ nStop[1] = 1
        /\ now = startedAt[1] + RECORDING_DURATION
        /\ ~is_recording

(* C28 *)

\* The threads that have passed stop_recording's is_recording check and have
\* their StopRecording call ahead (0: the main thread, k: auto-stop thread k).
AtStopCall ==
    {k \in TimerIds : tpc[k] = "stop_call"}
        \cup (IF mpc = "stop_call" THEN {0} ELSE {})

\* C28: no recording receives more than one StopRecording call, also when
\* the main thread and an auto-stop thread run stop_recording at the same
\* time: two threads are never both past the is_recording check with the
\* call ahead of them.
C28_OneStopCallPerRecording == Cardinality(AtStopCall) <= 1

(* C27 *)

\* C27: the loop stores the readings of every non-empty buffer in
\* current_peak and current_rms while it holds levels_lock, before and
\* whatever the detection path does with the buffer, and the pair
\* get_current_levels returns was computed from one buffer.
C27_LevelsPairFromOneBuffer ==
    /\ detector.gpc = "idle"
          => detector.got.peak_from = detector.got.rms_from
    /\ detector.gpc = "rms" => detector.got.peak_from = detector.rms_from
    /\ detector.lpc \in {"peak", "rms", "data"} => detector.levels_lock = "loop"
    /\ detector.gpc \in {"peak", "rms"} => detector.levels_lock = "gui"
    /\ detector.lpc = "detect"
          => /\ detector.chunk # <<>>
             /\ detector.peak_from = detector.chunk
             /\ detector.rms_from = detector.chunk
             /\ detector.audio_data = detector.chunk
             /\ detector.current_peak = MaxAbs16(detector.chunk)
             /\ detector.current_rms = NormalizedRms(detector.chunk)

\* get_current_levels has returned the pair of a buffer that triggered no
\* detection, and the loop is writing the readings of a later, different
\* buffer: the peak is already stored, the rms not yet.
C27_Witness ==
    /\ detector.got.peak_from # <<>>
    /\ detector.got.peak = MaxAbs16(detector.got.peak_from)
    /\ detector.got.rms = NormalizedRms(detector.got.rms_from)
    /\ detector.gpc = "idle"
    /\ detector.lpc = "rms"
    /\ detector.peak_from # detector.rms_from
    /\ detector.rms_from = detector.got.rms_from
    /\ detector.current_peak # detector.got.peak
    /\ callbacks["audio"] = 0

----------------------------------------------------------------------------
(* Readings of the life cycle *)

Alive(s) == life.thread[s] \in {"run", "read"}

\* A step of the owning thread that enters a call.
OwnerCall == life'.ops # life.ops

(* C21 *)

\* C21: when stop_detection has returned, the detection thread has ended and
\* the device handle is released; from then on, until the owning thread
\* makes another call, the sampler reads no sample, leaves its
\* last_detection_time alone and invokes no callback.
C21_StopWaitsForThread ==
    [][\A s \in Samplers :
          /\ life'.last[s] = "stopped"
                => /\ life'.thread[s] \in {"none", "exited"}
                   /\ life'.handle[s] # "open"
                   /\ ~life'.is_running[s]
                   /\ life'.live[s] = 0
          /\ (life.last[s] = "stopped" /\ ~OwnerCall)
                => /\ life'.thread[s] = life.thread[s]
                   /\ last_detection_time'[s] = last_detection_time[s]
                   /\ callbacks'[s] = callbacks[s]
                   /\ detLog'[s] = detLog[s]]_vars

\* A sampler that dispatched a detection, was stopped while its thread was
\* alive and has been left alone for a second: thread ended, handle released
\* once.
C21_Witness ==
    \E s \in Samplers :
        /\ life.last[s] = "stopped"
        /\ life.thread[s] = "exited"
        /\ life.handle[s] = "closed"
        /\ life.releases[s] = 1
        /\ callbacks[s] = 1
        /\ now > Last(detLog[s]).t

(* C22 *)

\* C22: whatever calls of stop_detection are made, the device handle of a
\* sampler is released at most once and no call ends with an error.
C22_StopIsIdempotent ==
    \A s \in Samplers :
        /\ life.releases[s] <= 1
        /\ life.last[s] # "stop_raised"

(* C23 *)

\* C23: start_detection called on a running sampler opens no device, starts
\* no thread and leaves is_running, the thread and last_detection_time as
\* they are; a sampler never has two detection threads.
C23_StartWhenRunningIsInert ==
    [][\A s \in Samplers :
          /\ (OwnerCall /\ life.is_running[s]
                  /\ life'.last[s] \in {"started", "already_running",
                                        "init_failed"})
                => /\ life'.last[s] = "already_running"
                   /\ life'.is_running[s]
                   /\ life'.thread[s] = life.thread[s]
                   /\ life'.handle[s] = life.handle[s]
                   /\ life'.releases[s] = life.releases[s]
                   /\ life'.live[s] = life.live[s]
                   /\ UNCHANGED <<last_detection_time, callbacks, detLog>>
          /\ life'.live[s] <= 1
          /\ life'.live[s] = IF life'.thread[s] \in {"run", "read"}
                             THEN 1 ELSE 0]_vars

\* A sampler started twice, running with its one thread and its one open
\* handle after a detection.
C23_Witness ==
    \E s \in Samplers :
        /\ life.last[s] = "already_running"
        /\ life.is_running[s]
        /\ Alive(s)
        /\ life.live[s] = 1
        /\ life.handle[s] = "open"
        /\ callbacks[s] = 1

(* C24 *)

\* C24: after a start_detection whose device initialization failed the
\* sampler is not running and has no live thread, and the call returned
\* something else than a successful start returns.
C24_InitFailureIsReported ==
    \A s \in Samplers :
        life.last[s] = "init_failed"
            => /\ ~life.is_running[s]
               /\ ~Alive(s)
               /\ life.result[s] # StartResult("started")

(* C25 *)

\* C25: an iteration whose read fails ends in the loop's next iteration, not
\* in the end of the thread, and touches neither the cooldown timestamp nor
\* the callback nor the detection history; a sampler that is_running has its
\* thread alive.
C25_ReadErrorIsNotFatal ==
    [][\A s \in Samplers :
          /\ (life.thread[s] = "read" /\ life'.thread[s] # "read"
                  /\ ~life'.read_ok[s])
                => /\ life'.thread[s] = "run"
                   /\ life'.live[s] = life.live[s]
                   /\ life'.is_running[s] = life.is_running[s]
                   /\ UNCHANGED <<last_detection_time, callbacks, detLog>>
          /\ life'.is_running[s] => life'.thread[s] \in {"run", "read"}]_vars

\* A sampler whose read failed after a dispatched detection, and which has
\* entered its next iteration.
C25_Witness ==
    \E s \in Samplers :
        /\ ~life.read_ok[s]
        /\ life.thread[s] = "read"
        /\ life.is_running[s]
        /\ callbacks[s] = 1
        /\ last_detection_time[s] = Last(detLog[s]).t

(* C29 *)

\* C29: a detection accepted before the detectors were stopped and rebuilt
\* and one accepted after are COOLDOWN_PERIOD or more apart.
C29_CooldownSurvivesRestart ==
    \A s \in Samplers : \A i, j \in DOMAIN Log(s) :
        (i <= life.restartAt[s] /\ life.restartAt[s] < j
             /\ Log(s)[i].acc /\ Log(s)[j].acc)
            => Log(s)[j].t - Log(s)[i].t >= COOLDOWN_PERIOD

(* C30 *)

\* C30: AutoRecordingApp.stop disconnects only after both samplers were
\* stopped and stop_recording has returned; once it has returned the session
\* is not recording, and no thread makes a backend call after the
\* disconnect.
C30_ShutdownIsOrdered ==
    [][/\ ~life'.connected
            => /\ \A s \in Samplers : life'.last[s] = "stopped"
               /\ mpc' = "idle"
       /\ life'.apc = "stopped" => ~is_recording'
       /\ ~life.connected
            => /\ UNCHANGED <<stopBy, nStop>>
               /\ \A s \in Samplers : spc'[s] = "loop"]_vars

====
